---------------------------- MODULE Spec2Model ----------------------------
(***************************************************************************)
(* A model of the two tutorial notebooks of 3-basics:                      *)
(*                                                                         *)
(*   1_load_data       load the two CSV tables, build the DGL graph,       *)
(*                     attach node and edge features (SpecLoad);           *)
(*   the training      create the trainable embedding, the two-layer       *)
(*   notebook          GraphSAGE network, and run the 100-epoch loop       *)
(*                     (SpecTrain).                                        *)
(*                                                                         *)
(* A notebook is a straight-line script: its state is the set of Python    *)
(* variables it assigns and the position pc of the next statement.  An     *)
(* exception no statement catches ends the run (pc = "raised").            *)
(*                                                                         *)
(* Tensors.  A tensor whose first dimension is n is a function with        *)
(* domain 0..n-1 (node and edge ids are zero-based); a row is an integer   *)
(* (a scalar feature) or a function from the columns 0..w-1 to integers.    *)
(* Floating point values are                                               *)
(* kept as integers in a fixed unit (see FP below for the training part).  *)
(***************************************************************************)
EXTENDS Integers, Sequences, FiniteSets, TLC

VARIABLES
    \* ---- notebook 1 (1_load_data) ----
    pc,           \* the next statement of the notebook
    exc,          \* the unhandled exception that ended the run, or NoExc
    trace,        \* the statements executed so far, in order (history)
    nodes_csv,    \* data/nodes.csv as found on disk
    edges_csv,    \* data/edges.csv as found on disk
    nodes_data,   \* the DataFrame read from nodes.csv (its rows)
    edges_data,   \* the DataFrame read from edges.csv (its rows)
    g,            \* the DGL graph
    age,          \* tensor: Age / 100
    club,         \* tensor: categorical club label
    club_onehot,  \* tensor: one-hot club label
    edge_weight,  \* tensor: Weight
    hetero_g,     \* the drug/gene/disease heterograph
    sub_g,        \* its ('drug','interacts','gene') subgraph
    \* ---- notebook 2 (training); it shares pc, g and the two files ----
    rng,          \* torch's random generator: its seed and the draws made
    heap,         \* the parameter tensors, by parameter name
    node_embed,   \* the nn.Embedding module; its weight is a name in heap
    inputs,       \* the node features: a reference to a tensor of heap
    labels,       \* g.ndata['club']
    labeled_nodes,\* the ids of the labeled nodes
    net,          \* the GraphSAGE module: the names of its parameters
    optimizer,    \* the Adam optimizer: its parameters, lr and state
    grads,        \* the .grad of every parameter that has one
    all_logits,   \* the list of the logits of every epoch
    it,           \* the position of the iterator of range(100)
    e,            \* the loop variable (-1: not bound yet)
    saved,        \* what autograd saved in the last forward pass
    logits,       \* the output of the last forward pass
    logp,         \* its log-softmax
    loss,         \* the loss of the last forward pass
    pred,         \* the predicted class of every node
    accuracy      \* the printed accuracy: correct / total

\* The variables only notebook 1 assigns, those only notebook 2 assigns.
loadOnly  == <<exc, trace, nodes_data, edges_data, age, club, club_onehot,
               edge_weight, hetero_g, sub_g>>
trainOnly == <<rng, heap, node_embed, inputs, labels, labeled_nodes, net,
               optimizer, grads, all_logits, it, e, saved, logits, logp, loss,
               pred, accuracy>>
vars == <<pc, g, nodes_csv, edges_csv, loadOnly, trainOnly>>

-----------------------------------------------------------------------------
(* Bounds of the input tables the model enumerates. *)

\* Largest node id of an enumerated (small) edge table.
MaxId == 1
\* Largest number of rows of an enumerated (small) edge table.
MaxRows == 2
\* Largest number of rows of an enumerated (small) node table.
MaxNodeRows == 3
\* Values a torch.randn entry is drawn from: 0 .. MaxRand.
MaxRand == 1

-----------------------------------------------------------------------------
(* Tensors *)

\* len(t): the size of the first dimension.
TLen(t) == Cardinality(DOMAIN t)

\* The tensor t with its entries computed (a function is otherwise computed
\* entry by entry, each time an entry is read).
Materialize(t) == IF t = t THEN t ELSE t

\* A tensor of n rows, every row equal to row.
Full(n, row) == [i \in 0..(n - 1) |-> row]

\* torch.randn(n, w) with every entry the drawn value r.
Randn(n, w, r) == Full(n, [j \in 0..(w - 1) |-> r])

\* max of a non-empty finite set of naturals.
MaxOf(S) == CHOOSE m \in S : \A x \in S : x <= m

-----------------------------------------------------------------------------
(* pandas: read_csv and column access *)

\* A CSV file that pandas cannot parse: read_csv raises.
Malformed == [ok |-> FALSE, rows |-> <<>>]

CsvFile(rows) == [ok |-> TRUE, rows |-> rows]

\* df[col].to_numpy() / .to_list(): the column, indexed from 0.
Column(df, col) == [i \in 0..(Len(df) - 1) |-> df[i + 1][col]]


-----------------------------------------------------------------------------
(* DGL: graphs, node and edge frames *)

\* The node type and the canonical edge type of a graph built by dgl.graph.
NType == "_N"
EType == <<"_N", "_E", "_N">>

\* A frame (dict of feature tensors) with no key.
EmptyFrame == [k \in {} |-> 0]

\* An assignment that replaces the frame by the one key.
FrameSetOnly(f, key, val) == [k \in {key} |-> val]

\* frame[key] = val
FrameSet(f, key, val) == [k \in (DOMAIN f) \cup {key} |-> IF k = key THEN val ELSE f[k]]

\* del frame[key]
FrameDel(f, key) == [k \in (DOMAIN f) \ {key} |-> f[k]]

\* The ids of node type nt that relation data (etype -> [src, dst]) mentions.
IdsOf(data, nt) ==
    UNION ({ {data[r].src[i] : i \in DOMAIN data[r].src} : r \in {q \in DOMAIN data : q[1] = nt} }
           \cup
           { {data[r].dst[i] : i \in DOMAIN data[r].dst} : r \in {q \in DOMAIN data : q[3] = nt} })

\* A graph that counts the distinct ids it was given instead of taking the
\* ids up to the largest.
HeterographDistinctIds(data) ==
    LET rels   == DOMAIN data
        ntypes == {r[1] : r \in rels} \cup {r[3] : r \in rels}
    IN  [ ntypes           |-> ntypes,
          num_nodes        |-> [nt \in ntypes |-> Cardinality(IdsOf(data, nt))],
          canonical_etypes |-> rels,
          edges            |-> [r \in rels |->
                                  [i \in DOMAIN data[r].src |->
                                      <<data[r].src[i], data[r].dst[i]>>]],
          nframes          |-> [nt \in ntypes |-> [k \in {} |-> 0]],
          eframes          |-> [r \in rels |-> [k \in {} |-> 0]] ]

\* dgl.heterograph(data): every node type gets the ids 0 .. (largest id), the
\* edges of a relation are its (src[i], dst[i]) pairs in row order, and no
\* feature is attached.
Heterograph(data) ==
    LET rels   == DOMAIN data
        ntypes == {r[1] : r \in rels} \cup {r[3] : r \in rels}
    IN  [ ntypes           |-> ntypes,
          num_nodes        |-> [nt \in ntypes |->
                                  IF IdsOf(data, nt) = {} THEN 0
                                  ELSE 1 + MaxOf(IdsOf(data, nt))],
          canonical_etypes |-> rels,
          edges            |-> [r \in rels |->
                                  [i \in DOMAIN data[r].src |->
                                      <<data[r].src[i], data[r].dst[i]>>]],
          nframes          |-> [nt \in ntypes |-> EmptyFrame],
          eframes          |-> [r \in rels |-> EmptyFrame] ]

\* dgl.graph((src, dst)): the homogeneous graph, one node type, one edge type.
DglGraph(src, dst) == Heterograph([r \in {EType} |-> [src |-> src, dst |-> dst]])

\* The value of g before the statement that builds it.
NoGraph == Heterograph([r \in {} |-> 0])

\* g.number_of_nodes() / g.number_of_edges() of a homogeneous graph.
NumberOfNodes(G) == G.num_nodes[NType]
NumberOfEdges(G) == TLen(G.edges[EType])

\* A subgraph that renumbers: it keeps of every node type only the ids up to
\* the largest one an edge of the kept relations mentions.
EdgeTypeSubgraphCompact(G, etypes) ==
    LET ntypes == {r[1] : r \in etypes} \cup {r[3] : r \in etypes}
        ids(nt) == UNION ({ {G.edges[r][i][1] : i \in DOMAIN G.edges[r]} :
                               r \in {q \in etypes : q[1] = nt} }
                          \cup
                          { {G.edges[r][i][2] : i \in DOMAIN G.edges[r]} :
                               r \in {q \in etypes : q[3] = nt} })
    IN  [ ntypes           |-> ntypes,
          num_nodes        |-> [nt \in ntypes |->
                                  1 + (CHOOSE m \in ids(nt) : \A x \in ids(nt) : x <= m)],
          canonical_etypes |-> etypes,
          edges            |-> [r \in etypes |-> G.edges[r]],
          nframes          |-> [nt \in ntypes |-> G.nframes[nt]],
          eframes          |-> [r \in etypes |-> G.eframes[r]] ]

\* dgl.edge_type_subgraph(G, etypes): the relations kept, the node types they
\* touch with all their nodes, and the features of what is kept.
EdgeTypeSubgraph(G, etypes) ==
    LET ntypes == {r[1] : r \in etypes} \cup {r[3] : r \in etypes}
    IN  [ ntypes           |-> ntypes,
          num_nodes        |-> [nt \in ntypes |-> G.num_nodes[nt]],
          canonical_etypes |-> etypes,
          edges            |-> [r \in etypes |-> G.edges[r]],
          nframes          |-> [nt \in ntypes |-> G.nframes[nt]],
          eframes          |-> [r \in etypes |-> G.eframes[r]] ]

\* G.is_unibipartite: no node type is both a source and a destination type.
IsUniBipartite(G) ==
    {r[1] : r \in G.canonical_etypes} \cap {r[3] : r \in G.canonical_etypes} = {}

\* G.srctypes / G.dsttypes: the source (destination) node types of a
\* uni-bipartite graph, every node type otherwise.
SrcTypes(G) == IF IsUniBipartite(G) THEN {r[1] : r \in G.canonical_etypes} ELSE G.ntypes
DstTypes(G) == IF IsUniBipartite(G) THEN {r[3] : r \in G.canonical_etypes} ELSE G.ntypes

\* The one type of a one-element set of types.
TheType(T) == CHOOSE t \in T : TRUE

\* The result of a statement that may raise: the exception (NoError when it
\* did not raise) and the graph it leaves.
NoError == ""
Outcome(err, G) == [raised |-> err, g |-> G]

\* An assignment that writes the frame first and checks the number of rows
\* afterwards.
SetNDataThenCheck(G, nt, key, val) ==
    [raised |-> IF TLen(val) # G.num_nodes[nt] THEN "DGLError" ELSE "",
     g      |-> [G EXCEPT !.nframes[nt] =
                    [k \in (DOMAIN @) \cup {key} |-> IF k = key THEN val ELSE @[k]]]]

\* G.nodes[nt].data[key] = val: DGL checks the number of rows against the
\* number of nodes of the type before it touches the frame.
SetNData(G, nt, key, val) ==
    IF TLen(val) # G.num_nodes[nt]
    THEN Outcome("DGLError", G)
    ELSE Outcome(NoError, [G EXCEPT !.nframes[nt] = FrameSet(@, key, val)])

\* G.edges[et].data[key] = val
SetEData(G, et, key, val) ==
    IF TLen(val) # TLen(G.edges[et])
    THEN Outcome("DGLError", G)
    ELSE Outcome(NoError, [G EXCEPT !.eframes[et] = FrameSet(@, key, val)])

\* del G.nodes[nt].data[key]
DelNData(G, nt, key) ==
    IF key \notin DOMAIN G.nframes[nt]
    THEN Outcome("KeyError", G)
    ELSE Outcome(NoError, [G EXCEPT !.nframes[nt] = FrameDel(@, key)])

RECURSIVE UpdateNData(_, _, _, _)
\* G.ndata.update({keys[1]: vals[keys[1]], ...}): one assignment per key, in
\* the dict's order; the first that raises ends the update.
UpdateNData(G, nt, keys, vals) ==
    IF keys = <<>> THEN Outcome(NoError, G)
    ELSE LET r == SetNData(G, nt, Head(keys), vals[Head(keys)])
         IN  IF r.raised # NoError THEN r
             ELSE UpdateNData(r.g, nt, Tail(keys), vals)

\* g.ndata, g.edata of a homogeneous graph; g.srcdata, g.dstdata of a graph
\* with one source (destination) node type.
NData(G)   == G.nframes[TheType(G.ntypes)]
EData(G)   == G.eframes[TheType(G.canonical_etypes)]
SrcData(G) == G.nframes[TheType(SrcTypes(G))]
DstData(G) == G.nframes[TheType(DstTypes(G))]

\* A srcdata that keeps its features under names of its own.
SetSrcDataViewOwnNames(G, key, val) == SetNData(G, TheType(SrcTypes(G)), "src:" \o key, val)

\* g.ndata[key] = val, g.edata[key] = val, g.srcdata[key] = val and
\* g.dstdata[key] = val
SetNDataView(G, key, val)   == SetNData(G, TheType(G.ntypes), key, val)
SetEDataView(G, key, val)   == SetEData(G, TheType(G.canonical_etypes), key, val)
SetSrcDataView(G, key, val) == SetNData(G, TheType(SrcTypes(G)), key, val)
SetDstDataView(G, key, val) == SetNData(G, TheType(DstTypes(G)), key, val)

-----------------------------------------------------------------------------
(* torch: the conversions of the node table *)

\* torch.tensor(seq): the tensor of a Python list.
Tensor(seq) == [i \in 0..(Len(seq) - 1) |-> seq[i + 1]]

\* The conversion with the test on the other club.
ClubToLongMrHi(col) == [i \in DOMAIN col |-> IF col[i] = "Mr. Hi" THEN 1 ELSE 0]

\* torch.tensor([c == 'Officer' for c in club]).long()
ClubToLong(col) == [i \in DOMAIN col |-> IF col[i] = "Officer" THEN 1 ELSE 0]

\* F.one_hot(t): no num_classes is given, so the width is 1 + the largest
\* value of t.
OneHot(t) ==
    LET num_classes == 1 + MaxOf({t[i] : i \in DOMAIN t})
    IN  [i \in DOMAIN t |-> [j \in 0..(num_classes - 1) |-> IF j = t[i] THEN 1 ELSE 0]]

\* torch.tensor(nodes_data['Age'].to_numpy()).float() / 100, in units of
\* 1/100: the integer Age years is the value Age/100 in that unit.
AgeTensor(col) == [i \in DOMAIN col |-> col[i]]

-----------------------------------------------------------------------------
(* The input files *)

ClubNames == {"Mr. Hi", "Officer"}

\* The number of members of the karate club.
NumMembers == 34

\* Zachary's karate club: its 78 pairs of members who interact.
ZacheryPairs ==
    << <<0,1>>, <<0,2>>, <<0,3>>, <<0,4>>, <<0,5>>, <<0,6>>, <<0,7>>, <<0,8>>,
       <<0,10>>, <<0,11>>, <<0,12>>, <<0,13>>, <<0,17>>, <<0,19>>, <<0,21>>, <<0,31>>,
       <<1,2>>, <<1,3>>, <<1,7>>, <<1,13>>, <<1,17>>, <<1,19>>, <<1,21>>, <<1,30>>,
       <<2,3>>, <<2,7>>, <<2,8>>, <<2,9>>, <<2,13>>, <<2,27>>, <<2,28>>, <<2,32>>,
       <<3,7>>, <<3,12>>, <<3,13>>,
       <<4,6>>, <<4,10>>,
       <<5,6>>, <<5,10>>, <<5,16>>,
       <<6,16>>,
       <<8,30>>, <<8,32>>, <<8,33>>,
       <<9,33>>,
       <<13,33>>,
       <<14,32>>, <<14,33>>,
       <<15,32>>, <<15,33>>,
       <<18,32>>, <<18,33>>,
       <<19,33>>,
       <<20,32>>, <<20,33>>,
       <<22,32>>, <<22,33>>,
       <<23,25>>, <<23,27>>, <<23,29>>, <<23,32>>, <<23,33>>,
       <<24,25>>, <<24,27>>, <<24,31>>,
       <<25,31>>,
       <<26,29>>, <<26,33>>,
       <<27,33>>,
       <<28,31>>, <<28,33>>,
       <<29,32>>, <<29,33>>,
       <<30,32>>, <<30,33>>,
       <<31,32>>, <<31,33>>,
       <<32,33>>
    >>

\* The rows of the provided data/edges.csv: every pair in both directions.
ZacheryEdges ==
    [k \in 1..(2 * Len(ZacheryPairs)) |->
        LET p == ZacheryPairs[(k + 1) \div 2]
        IN  IF k % 2 = 1 THEN [Src |-> p[1], Dst |-> p[2], Weight |-> 1]
                         ELSE [Src |-> p[2], Dst |-> p[1], Weight |-> 1]]

\* The members who followed the club president ('Officer'); the others
\* followed the instructor ('Mr. Hi').
ZacheryOfficers == {9, 14, 15, 18, 20, 22, 23, 24, 25, 26, 27, 28, 29, 30, 31, 32, 33}

\* A node table of n rows whose 'Officer' rows are the ids in officers.
NodeTable(n, officers) ==
    [k \in 1..n |-> [Id   |-> k - 1,
                     Age  |-> 20 + k,
                     Club |-> IF (k - 1) \in officers THEN "Officer" ELSE "Mr. Hi"]]

\* The rows of the provided data/nodes.csv.
ZacheryNodes == NodeTable(NumMembers, ZacheryOfficers)

\* nodes.csv as it may be found: unparsable, a small table with any club
\* labels, the provided table, or a table of the club's size whose members
\* all belong to one club.
NodeFiles ==
    {Malformed}
    \cup {CsvFile(NodeTable(n, officers)) :
             n \in 1..MaxNodeRows, officers \in SUBSET (0..(MaxNodeRows - 1))}
    \cup {CsvFile(ZacheryNodes),
          CsvFile(NodeTable(NumMembers, {})),
          CsvFile(NodeTable(NumMembers, 0..(NumMembers - 1)))}

\* The edge tables of exactly n rows over the ids 0..MaxId.
EdgeTables(n) ==
    LET ids == 0..MaxId
    IN  {[k \in 1..n |-> [Src |-> f[k][1], Dst |-> f[k][2], Weight |-> k]] :
            f \in [1..n -> ids \X ids]}

\* edges.csv as it may be found: unparsable, a small table, or the provided
\* table.
EdgeFiles ==
    {Malformed}
    \cup {CsvFile(t) : t \in UNION {EdgeTables(n) : n \in 1..MaxRows}}
    \cup {CsvFile(ZacheryEdges)}

-----------------------------------------------------------------------------
(* Notebook 1: the statements, in the order of the cells *)

LoadStmts ==
    << "read_nodes",     \* nodes_data = pd.read_csv('data/nodes.csv')
       "read_edges",     \* edges_data = pd.read_csv('data/edges.csv')
       "graph",          \* g = dgl.graph((src, dst))
       "age",            \* age = torch.tensor(...).float() / 100
       "set_age",        \* g.ndata['age'] = age
       "club",           \* club = torch.tensor([c == 'Officer' ...]).long()
       "one_hot",        \* club_onehot = F.one_hot(club)
       "update",         \* g.ndata.update({'club': ..., 'club_onehot': ...})
       "del_age",        \* del g.ndata['age']
       "edge_weight",    \* edge_weight = torch.tensor(edges_data['Weight'])
       "set_weight",     \* g.edata['weight'] = edge_weight
       "set_src_h",      \* g.srcdata['src_h'] = torch.randn(34,4)
       "set_dst_h",      \* g.dstdata['dst_h'] = torch.randn(34,7)
       "heterograph",    \* hetero_g = dgl.heterograph(heterograph_data)
       "subgraph",       \* sub_g = dgl.edge_type_subgraph(hetero_g, [...])
       "sub_src_h",      \* sub_g.srcdata['src_h'] = torch.randn(3,3)
       "sub_dst_h",      \* sub_g.dstdata['dst_h'] = torch.randn(4,2)
       "done" >>

\* The position of statement s in the notebook.
StmtIndex(s) == CHOOSE k \in 1..Len(LoadStmts) : LoadStmts[k] = s

\* The cell of each statement: the statements of one cell run together.
CellOf(s) ==
    CASE s \in {"club", "one_hot", "update", "del_age"}  -> "cell_club"
      [] s \in {"edge_weight", "set_weight"}             -> "cell_weight"
      [] s \in {"set_src_h", "set_dst_h"}                -> "cell_src_dst"
      [] s \in {"sub_src_h", "sub_dst_h"}                -> "cell_sub_src_dst"
      [] OTHER                                           -> s

\* No exception was raised.
NoExc == [stmt |-> "", error |-> NoError]

\* The control flow of a statement that ends with err (NoError: it ended
\* normally): the next statement runs, or the exception, which no cell
\* catches, ends the run.
Step(err) ==
    /\ trace' = Append(trace, pc)
    /\ IF err = NoError
       THEN /\ pc' = LoadStmts[StmtIndex(pc) + 1]
            /\ exc' = exc
       ELSE /\ pc' = "raised"
            /\ exc' = [stmt |-> pc, error |-> err]

\* The relations of the heterograph of the tutorial.
HeterographData ==
    [r \in { <<"drug", "interacts", "drug">>,
             <<"drug", "interacts", "gene">>,
             <<"drug", "treats", "disease">> } |->
        CASE r = <<"drug", "interacts", "drug">> ->
                 [src |-> Tensor(<<0, 1>>), dst |-> Tensor(<<1, 2>>)]
          [] r = <<"drug", "interacts", "gene">> ->
                 [src |-> Tensor(<<0, 1>>), dst |-> Tensor(<<2, 3>>)]
          [] r = <<"drug", "treats", "disease">> ->
                 [src |-> Tensor(<<1>>), dst |-> Tensor(<<2>>)]]

\* The variables of notebook 2 before any of its statements ran.
TrainUnassigned ==
    /\ heap = EmptyFrame
    /\ node_embed = [num_embeddings |-> 0, embedding_dim |-> 0, weight |-> ""]
    /\ inputs = ""
    /\ labels = <<>>
    /\ labeled_nodes = <<>>
    /\ net = <<>>
    /\ optimizer = [params |-> <<>>, lr |-> 0, state |-> EmptyFrame]
    /\ grads = EmptyFrame
    /\ all_logits = <<>>
    /\ it = 0
    /\ e = -1
    /\ saved = [input |-> "", x |-> <<>>, z1 |-> <<>>]
    /\ logits = <<>>
    /\ logp = <<>>
    /\ loss = 0
    /\ pred = <<>>
    /\ accuracy = [correct |-> 0, total |-> 0]

\* The variables of notebook 1 before any of its statements ran.
LoadUnassigned ==
    /\ exc = NoExc
    /\ trace = <<>>
    /\ nodes_data = <<>>
    /\ edges_data = <<>>
    /\ age = <<>>
    /\ club = <<>>
    /\ club_onehot = <<>>
    /\ edge_weight = <<>>
    /\ hetero_g = NoGraph
    /\ sub_g = NoGraph

InitLoad ==
    /\ pc = "read_nodes"
    /\ nodes_csv \in NodeFiles
    /\ edges_csv \in EdgeFiles
    /\ g = NoGraph
    /\ LoadUnassigned
    /\ rng = [seed |-> 0, count |-> 0]
    /\ TrainUnassigned

ReadNodes ==
    /\ pc = "read_nodes"
    /\ nodes_data' = IF nodes_csv.ok THEN nodes_csv.rows ELSE nodes_data
    /\ Step(IF nodes_csv.ok THEN NoError ELSE "ParserError")
    /\ UNCHANGED trainOnly
    /\ UNCHANGED <<nodes_csv, edges_csv, edges_data, g, age, club, club_onehot,
                   edge_weight, hetero_g, sub_g>>

ReadEdges ==
    /\ pc = "read_edges"
    /\ edges_data' = IF edges_csv.ok THEN edges_csv.rows ELSE edges_data
    /\ Step(IF edges_csv.ok THEN NoError ELSE "ParserError")
    /\ UNCHANGED trainOnly
    /\ UNCHANGED <<nodes_csv, edges_csv, nodes_data, g, age, club, club_onehot,
                   edge_weight, hetero_g, sub_g>>

BuildGraph ==
    /\ pc = "graph"
    /\ g' = DglGraph(Column(edges_data, "Src"), Column(edges_data, "Dst"))
    /\ Step(NoError)
    /\ UNCHANGED trainOnly
    /\ UNCHANGED <<nodes_csv, edges_csv, nodes_data, edges_data, age, club,
                   club_onehot, edge_weight, hetero_g, sub_g>>

PrepareAge ==
    /\ pc = "age"
    /\ age' = AgeTensor(Column(nodes_data, "Age"))
    /\ Step(NoError)
    /\ UNCHANGED trainOnly
    /\ UNCHANGED <<nodes_csv, edges_csv, nodes_data, edges_data, g, club,
                   club_onehot, edge_weight, hetero_g, sub_g>>

\* A statement that assigns to g and may raise.
GraphStmt(s, r) ==
    /\ pc = s
    /\ g' = r.g
    /\ Step(r.raised)
    /\ UNCHANGED trainOnly
    /\ UNCHANGED <<nodes_csv, edges_csv, nodes_data, edges_data, age, club,
                   club_onehot, edge_weight, hetero_g, sub_g>>

SetAge == GraphStmt("set_age", SetNDataView(g, "age", age))

ConvertClub ==
    /\ pc = "club"
    /\ club' = ClubToLong(Column(nodes_data, "Club"))
    /\ Step(NoError)
    /\ UNCHANGED trainOnly
    /\ UNCHANGED <<nodes_csv, edges_csv, nodes_data, edges_data, g, age,
                   club_onehot, edge_weight, hetero_g, sub_g>>

ClubOneHot ==
    /\ pc = "one_hot"
    /\ club_onehot' = OneHot(club)
    /\ Step(NoError)
    /\ UNCHANGED trainOnly
    /\ UNCHANGED <<nodes_csv, edges_csv, nodes_data, edges_data, g, age, club,
                   edge_weight, hetero_g, sub_g>>

UpdateNDataStmt ==
    GraphStmt("update",
              UpdateNData(g, TheType(g.ntypes), <<"club", "club_onehot">>,
                          [club |-> club, club_onehot |-> club_onehot]))

DelAge == GraphStmt("del_age", DelNData(g, TheType(g.ntypes), "age"))

PrepareEdgeWeight ==
    /\ pc = "edge_weight"
    /\ edge_weight' = Column(edges_data, "Weight")
    /\ Step(NoError)
    /\ UNCHANGED trainOnly
    /\ UNCHANGED <<nodes_csv, edges_csv, nodes_data, edges_data, g, age, club,
                   club_onehot, hetero_g, sub_g>>

SetWeight == GraphStmt("set_weight", SetEDataView(g, "weight", edge_weight))

SetSrcH ==
    \E r \in 0..MaxRand :
        GraphStmt("set_src_h", SetSrcDataView(g, "src_h", Randn(34, 4, r)))

SetDstH ==
    \E r \in 0..MaxRand :
        GraphStmt("set_dst_h", SetDstDataView(g, "dst_h", Randn(34, 7, r)))

BuildHeterograph ==
    /\ pc = "heterograph"
    /\ hetero_g' = Heterograph(HeterographData)
    /\ Step(NoError)
    /\ UNCHANGED trainOnly
    /\ UNCHANGED <<nodes_csv, edges_csv, nodes_data, edges_data, g, age, club,
                   club_onehot, edge_weight, sub_g>>

ExtractSubgraph ==
    /\ pc = "subgraph"
    /\ sub_g' = EdgeTypeSubgraph(hetero_g, {<<"drug", "interacts", "gene">>})
    /\ Step(NoError)
    /\ UNCHANGED trainOnly
    /\ UNCHANGED <<nodes_csv, edges_csv, nodes_data, edges_data, g, age, club,
                   club_onehot, edge_weight, hetero_g>>

\* A statement that assigns to sub_g and may raise.
SubGraphStmt(s, r) ==
    /\ pc = s
    /\ sub_g' = r.g
    /\ Step(r.raised)
    /\ UNCHANGED trainOnly
    /\ UNCHANGED <<nodes_csv, edges_csv, nodes_data, edges_data, g, age, club,
                   club_onehot, edge_weight, hetero_g>>

SubSetSrcH ==
    \E r \in 0..MaxRand :
        SubGraphStmt("sub_src_h", SetSrcDataView(sub_g, "src_h", Randn(3, 3, r)))

SubSetDstH ==
    \E r \in 0..MaxRand :
        SubGraphStmt("sub_dst_h", SetDstDataView(sub_g, "dst_h", Randn(4, 2, r)))

NextLoad ==
    \/ ReadNodes
    \/ ReadEdges
    \/ BuildGraph
    \/ PrepareAge
    \/ SetAge
    \/ ConvertClub
    \/ ClubOneHot
    \/ UpdateNDataStmt
    \/ DelAge
    \/ PrepareEdgeWeight
    \/ SetWeight
    \/ SetSrcH
    \/ SetDstH
    \/ BuildHeterograph
    \/ ExtractSubgraph
    \/ SubSetSrcH
    \/ SubSetDstH

SpecLoad == InitLoad /\ [][NextLoad]_vars

-----------------------------------------------------------------------------
(* Fixed-point arithmetic of the training notebook *)

(***************************************************************************)
(* A float x is kept as the integer nearest to x * FP.  exp and log are    *)
(* replaced by the piecewise approximations stated at Softplus and         *)
(* HardSigmoid; every other operation is the float operation with its      *)
(* result truncated to the unit.                                           *)
(***************************************************************************)
FP == 10 * 10 * 10

\* a / b truncated toward zero (b > 0).
TDiv(a, b) == IF a >= 0 THEN a \div b ELSE -((-a) \div b)

\* The product of two fixed-point numbers.
FMul(a, b) == TDiv(a * b, FP)

RECURSIVE ISqrtIn(_, _, _)
\* The largest r in lo..hi with r * r <= n (lo * lo <= n).
ISqrtIn(n, lo, hi) ==
    IF lo >= hi THEN lo
    ELSE LET mid == (lo + hi + 1) \div 2
         IN  IF mid * mid <= n THEN ISqrtIn(n, mid, hi) ELSE ISqrtIn(n, lo, mid - 1)

\* floor(sqrt(n)) for 0 <= n < 2^31.
ISqrt(n) == ISqrtIn(n, 0, 46340)

\* f[0] + ... + f[n-1]
SumTo(f, n) ==
    LET s[k \in 0..n] == IF k = 0 THEN 0 ELSE s[k - 1] + f[k - 1]
    IN  s[n]

\* The dot product of two fixed-point vectors of length n.
Dot(a, b, n) == SumTo([j \in 0..(n - 1) |-> FMul(a[j], b[j])], n)

\* A rows x cols matrix of zeros.
Zeros(rows, cols) == [i \in 0..(rows - 1) |-> [j \in 0..(cols - 1) |-> 0]]

\* The number of rows and of columns of a matrix.
Rows(t) == TLen(t)
Cols(t) == TLen(t[0])

\* softplus(x) = log(1 + exp(x)), approximated by 0 below -2, x above 2 and
\* (x + 2)^2 / 8 between.
Softplus(x) ==
    IF x <= -2 * FP THEN 0
    ELSE IF x >= 2 * FP THEN x
    ELSE TDiv((x + 2 * FP) * (x + 2 * FP), 8 * FP)

\* sigmoid(x) = 1 / (1 + exp(-x)), approximated by the derivative of
\* Softplus: 0 below -2, 1 above 2 and 1/2 + x/4 between.
HardSigmoid(x) ==
    IF x <= -2 * FP THEN 0
    ELSE IF x >= 2 * FP THEN FP
    ELSE (FP \div 2) + TDiv(x, 4)

-----------------------------------------------------------------------------
(* The GraphSAGE network: two SAGEConv layers with the 'mean' aggregator *)

\* nn.Embedding(g.number_of_nodes(), 5): the size of a node's embedding.
EmbedDim == 5
\* GraphSAGE(5, 16, 2): in_feats, h_feats, num_classes.
InFeats == 5
HFeats == 16
NumClasses == 2
\* for e in range(100)
NumEpochs == 100

\* The name of the embedding's parameter and of the parameters of the
\* network, in the order of net.parameters().
EmbedWeight == "node_embed.weight"
NetParams ==
    << "conv1.fc_self.weight", "conv1.fc_self.bias",
       "conv1.fc_neigh.weight", "conv1.fc_neigh.bias",
       "conv2.fc_self.weight", "conv2.fc_self.bias",
       "conv2.fc_neigh.weight", "conv2.fc_neigh.bias" >>

\* The elements of a sequence.
Range(seq) == {seq[k] : k \in 1..Len(seq)}

\* For every node, the other end of each of its edges, in edge order: with
\* (at, other) = (2, 1) the sources of its in-edges, with (1, 2) the
\* destinations of its out-edges.
NbrSeqs(edges, n, at, other) ==
    Materialize(
        [v \in 0..(n - 1) |->
            LET ends == SelectSeq([i \in 1..TLen(edges) |-> edges[i - 1]], LAMBDA row : row[at] = v)
            IN  [k \in 1..Len(ends) |-> ends[k][other]]])

InNbrs(G)  == NbrSeqs(G.edges[EType], NumberOfNodes(G), 2, 1)
OutNbrs(G) == NbrSeqs(G.edges[EType], NumberOfNodes(G), 1, 2)

\* The mean of the rows H[u], u in us (the 'mean' aggregator); zero when the
\* node has no in-edge.
MeanRows(H, us, width) ==
    [j \in 0..(width - 1) |->
        IF us = <<>> THEN 0
        ELSE TDiv(SumTo([i \in 0..(Len(us) - 1) |-> H[us[i + 1]][j]], Len(us)), Len(us))]

\* The neighbour means of every node.
MeanNbr(nbrs, H, width) == Materialize([v \in DOMAIN H |-> MeanRows(H, nbrs[v], width)])

\* fc_self(H[v]) + fc_neigh(M[v]) for every node v: two nn.Linear layers.
SAGELinear(Ws, bs, Wn, bn, H, M, nin, nout) ==
    Materialize(
        [v \in DOMAIN H |->
            [k \in 0..(nout - 1) |->
                bs[0][k] + Dot(Ws[k], H[v], nin) + bn[0][k] + Dot(Wn[k], M[v], nin)]])

\* SAGEConv(nin, nout, 'mean'): fc_self(h_v) + fc_neigh(mean of h_u over the
\* in-neighbours u of v).
SAGEConv(nbrs, Ws, bs, Wn, bn, H, nin, nout) ==
    SAGELinear(Ws, bs, Wn, bn, H, MeanNbr(nbrs, H, nin), nin, nout)

\* F.relu
Relu(H) ==
    Materialize([v \in DOMAIN H |-> [k \in DOMAIN H[v] |-> IF H[v][k] > 0 THEN H[v][k] ELSE 0]])

\* self.conv1(g, in_feat) and self.conv2(g, h)
Conv1(nbrs, P, x) ==
    SAGEConv(nbrs, P["conv1.fc_self.weight"], P["conv1.fc_self.bias"],
             P["conv1.fc_neigh.weight"], P["conv1.fc_neigh.bias"], x, InFeats, HFeats)
Conv2(nbrs, P, h) ==
    SAGEConv(nbrs, P["conv2.fc_self.weight"], P["conv2.fc_self.bias"],
             P["conv2.fc_neigh.weight"], P["conv2.fc_neigh.bias"], h, HFeats, NumClasses)

\* The result of the forward pass given the output z1 of conv1: what
\* autograd saves for the backward pass (the input, z1) and the logits.
ForwardFrom(nbrs, P, x, z1) == [x |-> x, z1 |-> z1, logits |-> Conv2(nbrs, P, Relu(z1))]

\* GraphSAGE.forward(g, in_feat): conv1, relu, conv2.
ForwardOn(nbrs, P, x) == ForwardFrom(nbrs, P, x, Conv1(nbrs, P, x))
GraphSAGEForward(G, P, x) == ForwardOn(InNbrs(G), P, x)

\* F.log_softmax(logits, 1) for two classes:
\* logp[v][c] = -softplus(logits[v][other class] - logits[v][c]).
LogSoftmax(z) ==
    Materialize(
        [v \in DOMAIN z |-> [c \in 0..(NumClasses - 1) |-> -Softplus(z[v][1 - c] - z[v][c])]])

\* t[idx] for a Python list idx of row numbers.
Index(t, idx) == [k \in 0..(Len(idx) - 1) |-> t[idx[k + 1]]]

\* F.nll_loss(input, target): the mean of -input[k][target[k]].
NllLoss(input, target) ==
    TDiv(SumTo([k \in DOMAIN input |-> -input[k][target[k]]], TLen(input)), TLen(input))

\* The loss of the training loop:
\* F.nll_loss(logp[labeled_nodes], labels[labeled_nodes]).
TrainLoss(lp, lab, nodes) == NllLoss(Index(lp, nodes), Index(lab, nodes))

\* softmax(z)[c] for two classes.
Softmax2(z, c) ==
    IF c = 1 THEN HardSigmoid(z[1] - z[0]) ELSE FP - HardSigmoid(z[1] - z[0])

\* The gradient of a loss taken over every node instead of over nodes.
GradLogitsAllNodes(z, lab, nodes) ==
    Materialize(
        [v \in DOMAIN z |->
            [c \in 0..(NumClasses - 1) |->
                TDiv(Softmax2(z[v], c) - (IF lab[v] = c THEN FP ELSE 0), TLen(z))]])

\* d loss / d logits of TrainLoss(LogSoftmax(z), lab, nodes): for a node in
\* nodes (softmax - onehot(label)) / len(nodes), zero for every other node.
GradLogits(z, lab, nodes) ==
    Materialize(
        [v \in DOMAIN z |->
            [c \in 0..(NumClasses - 1) |->
                IF v \in Range(nodes)
                THEN TDiv(Softmax2(z[v], c) - (IF lab[v] = c THEN FP ELSE 0), Len(nodes))
                ELSE 0]])

\* The gradient of a linear layer's weight: sum over the nodes of
\* dOut[v][k] * In[v][j].
GradWeight(dOut, In, nout, nin) ==
    Materialize(
        [k \in 0..(nout - 1) |->
            [j \in 0..(nin - 1) |->
                SumTo([v \in DOMAIN dOut |-> FMul(dOut[v][k], In[v][j])], TLen(dOut))]])

\* The gradient of a linear layer's bias: sum over the nodes of dOut[v][k].
GradBias(dOut, nout) ==
    Materialize(
        [z \in {0} |->
            [k \in 0..(nout - 1) |-> SumTo([v \in DOMAIN dOut |-> dOut[v][k]], TLen(dOut))]])

\* W^T dOut[v] for every node v: the gradient that reaches the input of a
\* linear layer.
GradLinearIn(W, dOut, nin, nout) ==
    Materialize(
        [v \in DOMAIN dOut |->
            [j \in 0..(nin - 1) |->
                SumTo([k \in 0..(nout - 1) |-> FMul(W[k][j], dOut[v][k])], nout)]])

\* The gradient of a SAGEConv layer's input: dSelf at the node itself, and
\* through the mean dNeigh[w] / (in-degree of w) from every out-neighbour w.
GradMeanIn(inn, out, dSelf, dNeigh, nin) ==
    Materialize(
        [v \in DOMAIN dSelf |->
            [j \in 0..(nin - 1) |->
                dSelf[v][j]
                + SumTo([i \in 0..(Len(out[v]) - 1) |->
                            TDiv(dNeigh[out[v][i + 1]][j], Len(inn[out[v][i + 1]]))],
                        Len(out[v]))]])

\* The gradient of a SAGEConv layer's input H: through fc_self at the node
\* itself and through fc_neigh and the mean at every out-neighbour.
GradInput(inn, out, Ws, Wn, dOut, nin, nout) ==
    GradMeanIn(inn, out, GradLinearIn(Ws, dOut, nin, nout), GradLinearIn(Wn, dOut, nin, nout), nin)

\* The gradient through F.relu: it passes where the input z was positive.
GradRelu(z, dH) ==
    Materialize([v \in DOMAIN dH |-> [k \in DOMAIN dH[v] |-> IF z[v][k] > 0 THEN dH[v][k] ELSE 0]])

\* The gradients of the parameters of one SAGEConv layer named layer, given
\* the gradient dOut of its output, its input H and the neighbour means M.
GradLayer(n, layer, dOut, H, M, nin, nout) ==
    IF n = layer \o ".fc_self.weight" THEN GradWeight(dOut, H, nout, nin)
    ELSE IF n = layer \o ".fc_neigh.weight" THEN GradWeight(dOut, M, nout, nin)
    ELSE GradBias(dOut, nout)

\* The gradients given those of the outputs of the two layers.
BackwardFrom(inn, out, P, x, h, dZ1, dZ2) ==
    [n \in Range(NetParams) \cup {"input"} |->
        IF n = "input"
        THEN GradInput(inn, out, P["conv1.fc_self.weight"], P["conv1.fc_neigh.weight"],
                       dZ1, InFeats, HFeats)
        ELSE IF n \in {"conv1.fc_self.weight", "conv1.fc_self.bias",
                       "conv1.fc_neigh.weight", "conv1.fc_neigh.bias"}
        THEN GradLayer(n, "conv1", dZ1, x, MeanNbr(inn, x, InFeats), InFeats, HFeats)
        ELSE GradLayer(n, "conv2", dZ2, h, MeanNbr(inn, h, HFeats), HFeats, NumClasses)]

\* The gradients given the gradient dZ2 of the logits: back through conv2 and
\* the relu to the output of conv1.
BackwardOn(inn, out, P, x, z1, h, dZ2) ==
    BackwardFrom(inn, out, P, x, h,
                 GradRelu(z1, GradInput(inn, out, P["conv2.fc_self.weight"],
                                        P["conv2.fc_neigh.weight"], dZ2, HFeats, NumClasses)),
                 dZ2)

\* loss.backward(): the gradient of the loss with respect to every parameter
\* of the network and to the input of the forward pass (key "input"), given
\* the tensors the forward pass saved and the gradient dZ2 of the logits.
Backward(G, P, tape, dZ2) ==
    BackwardOn(InNbrs(G), OutNbrs(G), P, tape.x, tape.z1, Relu(tape.z1), dZ2)

\* a + b for two matrices of one shape.
MatAdd(a, b) == [i \in DOMAIN a |-> [j \in DOMAIN a[i] |-> a[i][j] + b[i][j]]]

-----------------------------------------------------------------------------
(* torch: the random generator and the initial values of the parameters *)

\* The largest seed of the random generator the model starts from.
MaxSeed == 0

\* The k-th draw of the generator seeded with seed, uniform in -a..a.
Pseudo(seed, k, a) == ((k * k * 31 + k * 17 + seed * 1009 + 7) % (2 * a + 1)) - a

\* A rows x cols tensor of the next draws of generator r.
DrawMatrix(r, rows, cols, a) ==
    [i \in 0..(rows - 1) |-> [j \in 0..(cols - 1) |-> Pseudo(r.seed, r.count + i * cols + j, a)]]

\* The generator after n draws.
Drawn(r, n) == [r EXCEPT !.count = @ + n]

\* The bound of nn.init.xavier_uniform_: gain * sqrt(6 / (fan_in + fan_out)),
\* given the square of the gain.
XavierBound(fan_in, fan_out, gain2) == ISqrt((gain2 * 6 * FP * FP) \div (fan_in + fan_out))

\* The shape of each parameter of the network (a bias is one row).
ParamShape(n) ==
    CASE n \in {"conv1.fc_self.weight", "conv1.fc_neigh.weight"} -> <<HFeats, InFeats>>
      [] n \in {"conv1.fc_self.bias", "conv1.fc_neigh.bias"}     -> <<1, HFeats>>
      [] n \in {"conv2.fc_self.weight", "conv2.fc_neigh.weight"} -> <<NumClasses, HFeats>>
      [] n \in {"conv2.fc_self.bias", "conv2.fc_neigh.bias"}     -> <<1, NumClasses>>

\* The bound of the initial values of a parameter of the network: SAGEConv
\* draws a weight by xavier_uniform_ with the gain of relu (sqrt 2), nn.Linear
\* draws a bias within 1 / sqrt(fan_in).
ParamBound(n) ==
    CASE n \in {"conv1.fc_self.weight", "conv1.fc_neigh.weight"} -> XavierBound(InFeats, HFeats, 2)
      [] n \in {"conv1.fc_self.bias", "conv1.fc_neigh.bias"}     -> ISqrt((FP * FP) \div InFeats)
      [] n \in {"conv2.fc_self.weight", "conv2.fc_neigh.weight"} -> XavierBound(HFeats, NumClasses, 2)
      [] n \in {"conv2.fc_self.bias", "conv2.fc_neigh.bias"}     -> ISqrt((FP * FP) \div HFeats)

RECURSIVE InitParams(_, _, _)
\* The heap and the generator after the parameters names were drawn in order.
InitParams(H, r, names) ==
    IF names = <<>> THEN [heap |-> H, rng |-> r]
    ELSE LET n  == Head(names)
             sh == ParamShape(n)
         IN  InitParams(FrameSet(H, n, DrawMatrix(r, sh[1], sh[2], ParamBound(n))),
                        Drawn(r, sh[1] * sh[2]), Tail(names))

-----------------------------------------------------------------------------
(* torch.optim.Adam with its default betas (0.9, 0.999) and eps 1e-8 *)

(***************************************************************************)
(* Units (FP = 1000): a parameter and a gradient are in 1/FP; exp_avg is   *)
(* in 1/(10 FP), so that (1 - beta1) * grad is the integer grad;           *)
(* exp_avg_sq is in 1/(1000 FP^2), so that (1 - beta2) * grad^2 is the     *)
(* integer grad * grad.  eps is below the unit and is kept only as the     *)
(* rule that a zero denominator gives a zero update.                       *)
(***************************************************************************)

\* The square of h, both in units of 1/unit.
Square(h, unit) == (h * h) \div unit

\* The square of h, both in units of 1/FP^2; the product is taken in two
\* parts, each within the integer width.
SquareWide(h) == ((h \div FP) * h) \div FP + ((h % FP) * h) \div (FP * FP)

RECURSIVE Beta1Pow(_)
\* beta1 ** t in units of 1/(10 FP), by repeated squaring.
Beta1Pow(t) ==
    IF t = 0 THEN 10 * FP
    ELSE IF t % 2 = 1 THEN (Beta1Pow(t - 1) * 9) \div 10
    ELSE Square(Beta1Pow(t \div 2), 10 * FP)

RECURSIVE Beta2Pow(_)
\* beta2 ** t in units of 1/FP^2, by repeated squaring.
Beta2Pow(t) ==
    IF t = 0 THEN FP * FP
    ELSE IF t % 2 = 1 THEN (Beta2Pow(t - 1) * 999) \div 1000
    ELSE SquareWide(Beta2Pow(t \div 2))

\* One element of the Adam update: the new exp_avg, exp_avg_sq and value.
\* b1 is the bias correction 1 - beta1^t in 1/(10 FP); s2 is
\* sqrt(1 / (1 - beta2^t)) scaled so that ISqrt(v) * s2 / 100 is
\* sqrt(exp_avg_sq / (1 - beta2^t)) in 1/(10 FP).
AdamElem(p, gr, m, v, lr, b1, s2) ==
    LET m2  == TDiv(9 * m, 10) + gr
        v2  == v - TDiv(v, 1000) + gr * gr
        num == TDiv(m2 * FP, b1 \div 10)
        den == (ISqrt(v2) * s2) \div 100
    IN  [m |-> m2, v |-> v2, p |-> IF den = 0 THEN p ELSE p - TDiv(lr * num, den)]

\* The state Adam creates for a parameter at its first step.
AdamInitState(p) ==
    [step |-> 0, exp_avg |-> Zeros(Rows(p), Cols(p)), exp_avg_sq |-> Zeros(Rows(p), Cols(p))]

\* The new value and state of a parameter given the update u of each of its
\* elements and the new step count t.
AdamResult(u, t) ==
    [param |-> [i \in DOMAIN u |-> [j \in DOMAIN u[i] |-> u[i][j].p]],
     state |-> [step       |-> t,
                exp_avg    |-> [i \in DOMAIN u |-> [j \in DOMAIN u[i] |-> u[i][j].m]],
                exp_avg_sq |-> [i \in DOMAIN u |-> [j \in DOMAIN u[i] |-> u[i][j].v]]]]

\* The update of every element at step t, given the two bias corrections.
AdamElems(p, gr, st, lr, t, b1, s2) ==
    AdamResult(
        Materialize(
            [i \in DOMAIN p |-> [j \in DOMAIN p[i] |->
                AdamElem(p[i][j], gr[i][j], st.exp_avg[i][j], st.exp_avg_sq[i][j], lr, b1, s2)]]),
        t)

\* The Adam update of one parameter p with gradient gr and state st: the
\* new value and the new state.
AdamParam(p, gr, st, lr) ==
    AdamElems(p, gr, st, lr, st.step + 1,
              10 * FP - Beta1Pow(st.step + 1),
              ISqrt((FP * FP * FP) \div (FP * FP - Beta2Pow(st.step + 1))))

\* The heap and the optimizer state given the update upd of every stepped
\* parameter.
AdamApply(H, opt, upd) ==
    [heap  |-> [n \in DOMAIN H |-> IF n \in DOMAIN upd THEN upd[n].param ELSE H[n]],
     state |-> [n \in (DOMAIN opt.state) \cup (DOMAIN upd) |->
                  IF n \in DOMAIN upd THEN upd[n].state ELSE opt.state[n]]]

\* optimizer.step(): every parameter of the optimizer that has a gradient is
\* updated in place; one without a gradient is skipped.  The result is the
\* new heap and the new optimizer state.
AdamStep(H, opt, G) ==
    AdamApply(H, opt,
        Materialize(
            [n \in {q \in Range(opt.params) : q \in DOMAIN G} |->
                AdamParam(H[n], G[n],
                          IF n \in DOMAIN opt.state THEN opt.state[n] ELSE AdamInitState(H[n]),
                          opt.lr)]))

\* A zero_grad that leaves the gradients as they are.
ZeroGradKeeps(G) == G

\* optimizer.zero_grad(): every gradient that exists is set to zero.
ZeroGrad(G) == [n \in DOMAIN G |-> Zeros(Rows(G[n]), Cols(G[n]))]

\* The tensors that require a gradient: the parameters of the modules.
Parameters == Range(NetParams) \cup {EmbedWeight}

\* loss.backward() accumulates into .grad: the new gradient is added to the
\* one a parameter has, or becomes its gradient.  The gradient of the input
\* of the forward pass goes to the tensor the input was, when that tensor is
\* a parameter.
Accumulate(G, new, input) ==
    LET leaves == Range(NetParams) \cup ({input} \cap Parameters)
    IN  [n \in (DOMAIN G) \cup leaves |->
            IF n \notin leaves THEN G[n]
            ELSE IF n \in DOMAIN G
            THEN MatAdd(G[n], IF n \in Range(NetParams) THEN new[n] ELSE new["input"])
            ELSE IF n \in Range(NetParams) THEN new[n] ELSE new["input"]]

\* The column that holds the smallest value (the last one of equal values).
ArgMin(z) ==
    [v \in DOMAIN z |->
        CHOOSE c \in DOMAIN z[v] :
            /\ \A d \in DOMAIN z[v] : z[v][c] <= z[v][d]
            /\ \A d \in DOMAIN z[v] : d > c => z[v][c] < z[v][d]]

\* torch.argmax(logits, axis=1): the first column that holds the largest value.
ArgMax(z) ==
    [v \in DOMAIN z |->
        CHOOSE c \in DOMAIN z[v] :
            /\ \A d \in DOMAIN z[v] : z[v][d] <= z[v][c]
            /\ \A d \in DOMAIN z[v] : d < c => z[v][d] < z[v][c]]

-----------------------------------------------------------------------------
(* Notebook 2: the training notebook, statement by statement *)

\* tutorial_utils.load_zachery(): the graph of notebook 1 with the node
\* features 'club' and 'club_onehot' and no edge feature.
LoadZachery(nodes_file, edges_file) ==
    LET c == ClubToLong(Column(nodes_file.rows, "Club"))
    IN  UpdateNData(DglGraph(Column(edges_file.rows, "Src"), Column(edges_file.rows, "Dst")),
                    NType, <<"club", "club_onehot">>,
                    [club |-> c, club_onehot |-> OneHot(c)]).g

\* The node tables the training notebook is run on: the provided one, and
\* tables that give other clubs to members other than 0 and 33.
TrainNodeFiles ==
    {CsvFile(ZacheryNodes),
     CsvFile(NodeTable(NumMembers, {NumMembers - 1}))}

\* inputs as a copy of the weight: a tensor of its own in the heap.
CopyWeight(H, ne) ==
    [heap |-> [k \in (DOMAIN H) \cup {"inputs"} |-> IF k = "inputs" THEN H[ne.weight] ELSE H[k]],
     ref  |-> "inputs"]

\* inputs = node_embed.weight: the same tensor under a second name, not a
\* copy of it.  The result is the heap and the reference inputs holds.
AliasWeight(H, ne) == [heap |-> H, ref |-> ne.weight]

\* range(100) read as the closed interval 0..100.
RangeHasNextInclusive(i) == i <= NumEpochs

\* Whether the iterator of range(100) at position i yields a value.
RangeHasNext(i) == i < NumEpochs

InitTrain ==
    /\ pc = "load_zachery"
    /\ nodes_csv \in TrainNodeFiles
    /\ edges_csv = CsvFile(ZacheryEdges)
    /\ g = NoGraph
    /\ LoadUnassigned
    /\ rng \in {[seed |-> sd, count |-> 0] : sd \in 0..MaxSeed}
    /\ TrainUnassigned

\* g = load_zachery()
LoadGraph ==
    /\ pc = "load_zachery"
    /\ g' = LoadZachery(nodes_csv, edges_csv)
    /\ pc' = "embedding"
    /\ UNCHANGED <<nodes_csv, edges_csv, rng, heap, node_embed, inputs,
                   labels, labeled_nodes, net, optimizer, grads, all_logits,
                   it, e, saved, logits, logp, loss, pred, accuracy,
                   loadOnly>>

\* node_embed = nn.Embedding(g.number_of_nodes(), 5): the weight is drawn from
\* the normal distribution (kept within 2 standard deviations).
CreateEmbedding ==
    /\ pc = "embedding"
    /\ node_embed' = [num_embeddings |-> NumberOfNodes(g), embedding_dim |-> EmbedDim,
                      weight |-> EmbedWeight]
    /\ heap' = FrameSet(heap, EmbedWeight, DrawMatrix(rng, NumberOfNodes(g), EmbedDim, 2 * FP))
    /\ rng' = Drawn(rng, NumberOfNodes(g) * EmbedDim)
    /\ pc' = "inputs"
    /\ UNCHANGED <<g, nodes_csv, edges_csv, inputs, labels, labeled_nodes,
                   net, optimizer, grads, all_logits, it, e, saved, logits,
                   logp, loss, pred, accuracy, loadOnly>>

\* The assignments of the statement whose result is r.
InputsResult(r) ==
    /\ heap' = r.heap
    /\ inputs' = r.ref

\* inputs = node_embed.weight
AssignInputs ==
    /\ pc = "inputs"
    /\ InputsResult(AliasWeight(heap, node_embed))
    /\ pc' = "xavier"
    /\ UNCHANGED <<g, nodes_csv, edges_csv, rng, node_embed, labels,
                   labeled_nodes, net, optimizer, grads, all_logits, it, e,
                   saved, logits, logp, loss, pred, accuracy, loadOnly>>

\* nn.init.xavier_uniform_(inputs): in place, on the tensor inputs refers to.
XavierInit ==
    /\ pc = "xavier"
    /\ heap' = [heap EXCEPT ![inputs] =
                    DrawMatrix(rng, Rows(@), Cols(@), XavierBound(Cols(@), Rows(@), 1))]
    /\ rng' = Drawn(rng, Rows(heap[inputs]) * Cols(heap[inputs]))
    /\ pc' = "labels"
    /\ UNCHANGED <<g, nodes_csv, edges_csv, node_embed, inputs, labels,
                   labeled_nodes, net, optimizer, grads, all_logits, it, e,
                   saved, logits, logp, loss, pred, accuracy, loadOnly>>

\* labels = g.ndata['club']; labeled_nodes = [0, 33]
AssignLabels ==
    /\ pc = "labels"
    /\ labels' = NData(g)["club"]
    /\ labeled_nodes' = <<0, 33>>
    /\ pc' = "net"
    /\ UNCHANGED <<g, nodes_csv, edges_csv, rng, heap, node_embed, inputs,
                   net, optimizer, grads, all_logits, it, e, saved, logits,
                   logp, loss, pred, accuracy, loadOnly>>

\* The assignments of the initialisation of the parameters whose result is r.
NetResult(r) ==
    /\ heap' = r.heap
    /\ rng' = r.rng

\* net = GraphSAGE(5, 16, 2)
CreateNet ==
    /\ pc = "net"
    /\ net' = NetParams
    /\ NetResult(InitParams(heap, rng, NetParams))
    /\ pc' = "optimizer"
    /\ UNCHANGED <<g, nodes_csv, edges_csv, node_embed, inputs, labels,
                   labeled_nodes, optimizer, grads, all_logits, it, e, saved,
                   logits, logp, loss, pred, accuracy, loadOnly>>

\* optimizer = torch.optim.Adam(itertools.chain(net.parameters(),
\* node_embed.parameters()), lr=0.01)
CreateOptimizer ==
    /\ pc = "optimizer"
    /\ optimizer' = [params |-> net \o <<node_embed.weight>>, lr |-> FP \div 100,
                     state |-> EmptyFrame]
    /\ pc' = "all_logits"
    /\ UNCHANGED <<g, nodes_csv, edges_csv, rng, heap, node_embed, inputs,
                   labels, labeled_nodes, net, grads, all_logits, it, e,
                   saved, logits, logp, loss, pred, accuracy, loadOnly>>

\* all_logits = []
InitAllLogits ==
    /\ pc = "all_logits"
    /\ all_logits' = <<>>
    /\ pc' = "for"
    /\ UNCHANGED <<g, nodes_csv, edges_csv, rng, heap, node_embed, inputs,
                   labels, labeled_nodes, net, optimizer, grads, it, e,
                   saved, logits, logp, loss, pred, accuracy, loadOnly>>

\* for e in range(100): the next epoch, or the end of the loop.
ForNext ==
    /\ pc = "for"
    /\ IF RangeHasNext(it)
       THEN /\ e' = it
            /\ it' = it + 1
            /\ pc' = "forward"
       ELSE /\ pc' = "pred"
            /\ UNCHANGED <<e, it>>
    /\ UNCHANGED <<g, nodes_csv, edges_csv, rng, heap, node_embed, inputs,
                   labels, labeled_nodes, net, optimizer, grads, all_logits,
                   saved, logits, logp, loss, pred, accuracy, loadOnly>>

\* The assignments of the forward pass whose result is r.
ForwardResult(r) ==
    /\ saved' = [input |-> inputs, x |-> r.x, z1 |-> r.z1]
    /\ logits' = r.logits

\* logits = net(g, inputs)
Forward ==
    /\ pc = "forward"
    /\ ForwardResult(GraphSAGEForward(g, heap, heap[inputs]))
    /\ pc' = "loss"
    /\ UNCHANGED <<g, nodes_csv, edges_csv, rng, heap, node_embed, inputs,
                   labels, labeled_nodes, net, optimizer, grads, all_logits,
                   it, e, logp, loss, pred, accuracy, loadOnly>>

\* logp = F.log_softmax(logits, 1)
\* loss = F.nll_loss(logp[labeled_nodes], labels[labeled_nodes])
ComputeLoss ==
    /\ pc = "loss"
    /\ logp' = LogSoftmax(logits)
    /\ loss' = TrainLoss(logp', labels, labeled_nodes)
    /\ pc' = "zero_grad"
    /\ UNCHANGED <<g, nodes_csv, edges_csv, rng, heap, node_embed, inputs,
                   labels, labeled_nodes, net, optimizer, grads, all_logits,
                   it, e, saved, logits, pred, accuracy, loadOnly>>

\* optimizer.zero_grad()
ZeroGradStmt ==
    /\ pc = "zero_grad"
    /\ grads' = ZeroGrad(grads)
    /\ pc' = "backward"
    /\ UNCHANGED <<g, nodes_csv, edges_csv, rng, heap, node_embed, inputs,
                   labels, labeled_nodes, net, optimizer, all_logits, it, e,
                   saved, logits, logp, loss, pred, accuracy, loadOnly>>

\* loss.backward()
BackwardStmt ==
    /\ pc = "backward"
    /\ grads' = Accumulate(grads,
                           Backward(g, heap, saved, GradLogits(logits, labels, labeled_nodes)),
                           saved.input)
    /\ pc' = "step"
    /\ UNCHANGED <<g, nodes_csv, edges_csv, rng, heap, node_embed, inputs,
                   labels, labeled_nodes, net, optimizer, all_logits, it, e,
                   saved, logits, logp, loss, pred, accuracy, loadOnly>>

\* The assignments of the optimizer step whose result is r.
StepResult(r) ==
    /\ heap' = r.heap
    /\ optimizer' = [optimizer EXCEPT !.state = r.state]

\* optimizer.step()
OptimizerStep ==
    /\ pc = "step"
    /\ StepResult(AdamStep(heap, optimizer, grads))
    /\ pc' = "append"
    /\ UNCHANGED <<g, nodes_csv, edges_csv, rng, node_embed, inputs, labels,
                   labeled_nodes, net, grads, all_logits, it, e, saved,
                   logits, logp, loss, pred, accuracy, loadOnly>>

\* all_logits.append(logits.detach())
AppendLogits ==
    /\ pc = "append"
    /\ all_logits' = Append(all_logits, logits)
    /\ pc' = "for"
    /\ UNCHANGED <<g, nodes_csv, edges_csv, rng, heap, node_embed, inputs,
                   labels, labeled_nodes, net, optimizer, grads, it, e,
                   saved, logits, logp, loss, pred, accuracy, loadOnly>>

\* pred = torch.argmax(logits, axis=1)
Predict ==
    /\ pc = "pred"
    /\ pred' = ArgMax(logits)
    /\ pc' = "accuracy"
    /\ UNCHANGED <<g, nodes_csv, edges_csv, rng, heap, node_embed, inputs,
                   labels, labeled_nodes, net, optimizer, grads, all_logits,
                   it, e, saved, logits, logp, loss, accuracy, loadOnly>>

\* print('Accuracy', (pred == labels).sum().item() / len(pred))
PrintAccuracy ==
    /\ pc = "accuracy"
    /\ accuracy' = [correct |-> Cardinality({v \in DOMAIN pred : pred[v] = labels[v]}),
                    total   |-> TLen(pred)]
    /\ pc' = "done"
    /\ UNCHANGED <<g, nodes_csv, edges_csv, rng, heap, node_embed, inputs,
                   labels, labeled_nodes, net, optimizer, grads, all_logits,
                   it, e, saved, logits, logp, loss, pred, loadOnly>>

NextTrain ==
    \/ LoadGraph
    \/ CreateEmbedding
    \/ AssignInputs
    \/ XavierInit
    \/ AssignLabels
    \/ CreateNet
    \/ CreateOptimizer
    \/ InitAllLogits
    \/ ForNext
    \/ Forward
    \/ ComputeLoss
    \/ ZeroGradStmt
    \/ BackwardStmt
    \/ OptimizerStep
    \/ AppendLogits
    \/ Predict
    \/ PrintAccuracy

SpecTrain == InitTrain /\ [][NextTrain]_vars

-----------------------------------------------------------------------------
(* Properties of notebook 1 (SpecLoad) *)

\* Statement s was executed (it ended normally or it raised).
Ran(s) == \E k \in DOMAIN trace : trace[k] = s

\* Statement s was executed and ended normally.
Passed(s) == Ran(s) /\ exc.stmt # s

\* C3: in the graph built by dgl.graph((src, dst)) the number of nodes N is
\* 1 + the largest id of the Src and Dst columns, so the nodes are 0..N-1;
\* every edge is a row of edges.csv, in row order, with both ends in 0..N-1;
\* the number of edges is the number of rows; for the provided edges.csv the
\* graph has 34 nodes and 156 edges, the 34 of the feature tensors.
C3_GraphNodesAndEdges ==
    Ran("graph") =>
        LET ids == {edges_data[k].Src : k \in DOMAIN edges_data}
                       \cup {edges_data[k].Dst : k \in DOMAIN edges_data}
            N   == NumberOfNodes(g)
        IN  /\ \A x \in ids : x < N
            /\ N - 1 \in ids
            /\ NumberOfEdges(g) = Len(edges_data)
            /\ \A k \in DOMAIN edges_data :
                   /\ g.edges[EType][k - 1] = <<edges_data[k].Src, edges_data[k].Dst>>
                   /\ g.edges[EType][k - 1][1] \in 0..(N - 1)
                   /\ g.edges[EType][k - 1][2] \in 0..(N - 1)
            /\ edges_csv = CsvFile(ZacheryEdges) =>
                   /\ N = 34
                   /\ NumberOfEdges(g) = 156
                   /\ TLen(Randn(34, 4, 0)) = N

\* The provided tables were read and the graph of 34 nodes and 156 edges built.
C3_Witness ==
    /\ pc = "age"
    /\ edges_csv = CsvFile(ZacheryEdges)
    /\ NumberOfNodes(g) = 34
    /\ NumberOfEdges(g) = 156

\* C4: after the conversion, club has one entry per row of the node table;
\* club[i] = 1 exactly when the Club string of row i is 'Officer' and
\* club[i] = 0 exactly when it is 'Mr. Hi'; for the provided table the labels
\* of node 0 and node 33 are 0 and 1.
C4_ClubCategorical ==
    Ran("club") =>
        /\ TLen(club) = Len(nodes_data)
        /\ \A i \in DOMAIN club :
               /\ club[i] = 1 <=> nodes_data[i + 1].Club = "Officer"
               /\ club[i] = 0 <=> nodes_data[i + 1].Club = "Mr. Hi"
        /\ nodes_csv = CsvFile(ZacheryNodes) => club[0] = 0 /\ club[33] = 1

\* The Club column of the provided table was converted.
C4_Witness ==
    /\ pc = "one_hot"
    /\ nodes_csv = CsvFile(ZacheryNodes)
    /\ club[0] = 0
    /\ club[33] = 1
    /\ \E i \in DOMAIN club : club[i] = 1 /\ i # 33

\* C5: the one-hot club feature has one row per node, every row has the two
\* columns 0 and 1, and row i holds 1 at column club[i] and 0 at the other
\* column, for every node table.
C5_OneHotWidthTwo ==
    Ran("one_hot") =>
        /\ TLen(club_onehot) = Len(nodes_data)
        /\ \A i \in DOMAIN club_onehot :
               /\ DOMAIN club_onehot[i] = 0..1
               /\ \A j \in 0..1 : club_onehot[i][j] = (IF j = club[i] THEN 1 ELSE 0)

\* C6: g.ndata.update adds or overwrites the keys 'club' and 'club_onehot' and
\* no other; del g.ndata['age'] removes 'age' and no other key, and leaves
\* exactly the keys 'club' and 'club_onehot'; neither changes an edge
\* feature; g.edata['weight'] = ... changes no node feature.
C6_FrameEffects ==
    [][ /\ (pc = "update" /\ pc' # "raised") =>
               /\ DOMAIN NData(g') = (DOMAIN NData(g)) \cup {"club", "club_onehot"}
               /\ NData(g')["club"] = club
               /\ NData(g')["club_onehot"] = club_onehot
               /\ \A k \in (DOMAIN NData(g)) \ {"club", "club_onehot"} :
                      NData(g')[k] = NData(g)[k]
               /\ g'.eframes = g.eframes
        /\ (pc = "del_age" /\ pc' # "raised") =>
               /\ DOMAIN NData(g') = (DOMAIN NData(g)) \ {"age"}
               /\ DOMAIN NData(g') = {"club", "club_onehot"}
               /\ \A k \in DOMAIN NData(g') : NData(g')[k] = NData(g)[k]
               /\ g'.eframes = g.eframes
        /\ pc = "set_weight" =>
               /\ g'.nframes = g.nframes
               /\ pc' # "raised" =>
                      /\ DOMAIN EData(g') = (DOMAIN EData(g)) \cup {"weight"}
                      /\ EData(g')["weight"] = edge_weight
      ]_vars

\* The three statements ran: the node features are 'club' and 'club_onehot',
\* the edge feature is 'weight'.
C6_Witness ==
    /\ pc = "set_src_h"
    /\ DOMAIN NData(g) = {"club", "club_onehot"}
    /\ NData(g)["club"] = club
    /\ DOMAIN EData(g) = {"weight"}

\* The number of rows of the feature the statement at pc assigns and the
\* number of nodes or edges it assigns it to (0 and 0 for a statement that
\* assigns no feature).
RowsAssigned ==
    CASE pc = "set_age"    -> <<TLen(age), NumberOfNodes(g)>>
      [] pc = "set_weight" -> <<TLen(edge_weight), NumberOfEdges(g)>>
      [] pc = "set_src_h"  -> <<34, NumberOfNodes(g)>>
      [] pc = "set_dst_h"  -> <<34, NumberOfNodes(g)>>
      [] OTHER             -> <<0, 0>>

C8_SrcDstAreNodes ==
    /\ Ran("graph") =>
           /\ SrcTypes(g) = g.ntypes
           /\ DstTypes(g) = g.ntypes
           /\ SrcData(g) = NData(g)
           /\ DstData(g) = NData(g)
    /\ Passed("set_src_h") =>
           /\ {"src_h", "club", "club_onehot"} \subseteq DOMAIN NData(g)
           /\ TLen(NData(g)["src_h"]) = NumberOfNodes(g)
           /\ NData(g)["club"] = club
           /\ NData(g)["club_onehot"] = club_onehot
    /\ Passed("set_dst_h") =>
           /\ DOMAIN NData(g) = {"src_h", "dst_h", "club", "club_onehot"}
           /\ TLen(NData(g)["dst_h"]) = NumberOfNodes(g)
           /\ \E r \in 0..MaxRand : NData(g)["src_h"] = Randn(34, 4, r)
           /\ \E r \in 0..MaxRand : NData(g)["dst_h"] = Randn(34, 7, r)

\* Both features were assigned and are in g.ndata.
C8_Witness ==
    /\ pc = "heterograph"
    /\ "src_h" \in DOMAIN NData(g)
    /\ "dst_h" \in DOMAIN NData(g)
    /\ "club" \in DOMAIN NData(g)

\* Largest number of rows of a feature offered to the subgraph.
MaxFeatureRows == 5

\* C9: the heterograph has the node types drug, gene and disease and 3 edge
\* types; every type has 1 + its largest id over all relations nodes: drug 3,
\* gene 4, disease 3; the ('drug','interacts','gene') subgraph keeps the
\* counts of drug and gene, its source type is drug and its destination type
\* gene, so srcdata takes a feature of 3 rows and no other number of rows,
\* dstdata one of 4 rows and no other.
C9_HeterographCounts ==
    /\ Ran("heterograph") =>
           /\ hetero_g.ntypes = {"drug", "gene", "disease"}
           /\ Cardinality(hetero_g.canonical_etypes) = 3
           /\ hetero_g.num_nodes["drug"] = 3
           /\ hetero_g.num_nodes["gene"] = 4
           /\ hetero_g.num_nodes["disease"] = 3
           /\ \A nt \in hetero_g.ntypes :
                  hetero_g.num_nodes[nt] = 1 + MaxOf(IdsOf(HeterographData, nt))
    /\ Ran("subgraph") =>
           /\ sub_g.ntypes = {"drug", "gene"}
           /\ sub_g.num_nodes["drug"] = 3
           /\ sub_g.num_nodes["gene"] = 4
           /\ SrcTypes(sub_g) = {"drug"}
           /\ DstTypes(sub_g) = {"gene"}
           /\ \A n \in 0..MaxFeatureRows :
                  /\ SetSrcDataView(sub_g, "src_h", Randn(n, 3, 0)).raised = NoError <=> n = 3
                  /\ SetDstDataView(sub_g, "dst_h", Randn(n, 2, 0)).raised = NoError <=> n = 4
    /\ pc = "done" =>
           /\ TLen(sub_g.nframes["drug"]["src_h"]) = 3
           /\ TLen(sub_g.nframes["gene"]["dst_h"]) = 4
           /\ "dst_h" \notin DOMAIN sub_g.nframes["drug"]
           /\ "src_h" \notin DOMAIN sub_g.nframes["gene"]

\* The notebook ran to its end: the subgraph holds both features.
C9_Witness ==
    /\ pc = "done"
    /\ exc = NoExc
    /\ "src_h" \in DOMAIN SrcData(sub_g)
    /\ "dst_h" \in DOMAIN DstData(sub_g)

-----------------------------------------------------------------------------
(* Properties of the training notebook (SpecTrain) *)

\* The statements of the body of the loop.
LoopBody == {"forward", "loss", "zero_grad", "backward", "step", "append"}

\* The epochs counted so far agree: in the body of the loop e is the epoch,
\* the iterator is one ahead and all_logits holds one entry per finished
\* epoch; after the loop 100 epochs were run, the last one with e = 99.
EpochsCounted ==
    /\ it \in 0..100
    /\ pc \in LoopBody =>
           /\ e \in 0..99
           /\ it = e + 1
           /\ Len(all_logits) = e
    /\ pc = "for" =>
           /\ Len(all_logits) = it
           /\ it > 0 => e = it - 1
    /\ pc \in {"pred", "accuracy", "done"} =>
           /\ it = 100
           /\ e = 99
           /\ Len(all_logits) = 100

\* C1: from every initial value of the parameters the loop runs the epochs
\* e = 0, 1, ..., 99, each once and in order, whatever the loss, the logits
\* and the gradients are: it never stops early, skips no epoch, runs no
\* 101st epoch; the loop is left only after the 100th epoch.
C1_HundredEpochs ==
    /\ []EpochsCounted
    /\ [][ /\ (pc \in LoopBody \ {"append"}) => pc' \in LoopBody
           /\ pc = "append" => pc' = "for"
           /\ (pc = "for" /\ it < 100) => (pc' = "forward" /\ e' = it)
           /\ (pc = "for" /\ it >= 100) => pc' = "pred"
         ]_vars

\* The notebook ended after 100 epochs.
C1_Witness ==
    /\ pc = "done"
    /\ e = 99
    /\ Len(all_logits) = 100
    /\ all_logits[100] = logits

\* The label tensor that agrees with lab on the nodes of nodes and gives
\* every other node the other class.
OtherClasses(lab, nodes) ==
    [v \in DOMAIN lab |-> IF v \in Range(nodes) THEN lab[v] ELSE 1 - lab[v]]

\* Label tensors that agree with lab on the nodes of nodes: the other nodes
\* all get class 0, all get class 1, each gets the other class, or one of
\* them gets the other class.
LabelsAgreeingOn(lab, nodes) ==
    {[v \in DOMAIN lab |-> IF v \in Range(nodes) THEN lab[v] ELSE c] : c \in 0..(NumClasses - 1)}
    \cup {OtherClasses(lab, nodes)}
    \cup {[lab EXCEPT ![u] = 1 - @] : u \in (DOMAIN lab) \ Range(nodes)}

\* C2: the labels flow into training through the loss and through
\* loss.backward() only, and both give the same result for every label tensor
\* that agrees with the labels on nodes 0 and 33: the labels of the other 32
\* nodes change neither the loss nor a gradient, hence no parameter update
\* and no entry of all_logits.
C2_OnlyLabeledNodes ==
    [][ /\ pc = "labels" => labeled_nodes' = <<0, 33>>
        /\ pc = "loss" =>
               \A alt \in LabelsAgreeingOn(labels, <<0, 33>>) :
                   loss' = TrainLoss(logp', alt, labeled_nodes)
        /\ pc = "backward" =>
               /\ \A alt \in LabelsAgreeingOn(labels, <<0, 33>>) :
                      GradLogits(logits, alt, labeled_nodes)
                          = GradLogits(logits, labels, labeled_nodes)
               /\ grads' = Accumulate(grads,
                                      Backward(g, heap, saved,
                                               GradLogits(logits,
                                                          OtherClasses(labels, <<0, 33>>),
                                                          labeled_nodes)),
                                      saved.input)
        /\ pc \in LoopBody \cup {"for"} => UNCHANGED <<labels, labeled_nodes>>
      ]_vars

\* A gradient was computed from labels of which some unlabeled node has
\* class 1 and some has class 0, and it is not zero.
C2_Witness ==
    /\ pc = "step"
    /\ e = 1
    /\ \E v \in DOMAIN labels : v \notin {0, 33} /\ labels[v] = 1
    /\ \E v \in DOMAIN labels : v \notin {0, 33} /\ labels[v] = 0
    /\ grads[EmbedWeight] # Zeros(NumMembers, EmbedDim)

\* C10: the embedding has one vector of size 5 per node; inputs is the
\* embedding weight itself; the optimizer holds the parameters of the network
\* and the embedding weight, and its step of every epoch updates each of
\* them (after the step of epoch e each was stepped e + 1 times); the
\* forward pass reads the embedding weight as the last step left it.
C10_EmbeddingTrained ==
    /\ pc \notin {"load_zachery", "embedding"} =>
           /\ Rows(heap[node_embed.weight]) = NumberOfNodes(g)
           /\ Cols(heap[node_embed.weight]) = 5
    /\ pc \notin {"load_zachery", "embedding", "inputs"} =>
           /\ inputs = node_embed.weight
           /\ DOMAIN heap \subseteq Parameters
    /\ pc \notin {"load_zachery", "embedding", "inputs", "xavier", "labels", "net", "optimizer"} =>
           Range(optimizer.params) = Range(net) \cup {node_embed.weight}
    /\ pc \in LoopBody =>
           \A n \in Range(net) \cup {node_embed.weight} :
               IF pc = "append"
               THEN n \in DOMAIN optimizer.state /\ optimizer.state[n].step = e + 1
               ELSE IF e = 0 THEN n \notin DOMAIN optimizer.state
               ELSE n \in DOMAIN optimizer.state /\ optimizer.state[n].step = e
    /\ pc \in {"loss", "zero_grad", "backward", "step"} =>
           /\ saved.input = node_embed.weight
           /\ saved.x = heap[node_embed.weight]

\* The optimizer stepped the embedding a second time and changed it: the
\* weight now differs from the one the forward pass of this epoch read.
C10_Witness ==
    /\ pc = "append"
    /\ e = 1
    /\ optimizer.state[EmbedWeight].step = 2
    /\ heap[EmbedWeight] # saved.x

\* The statement that follows each statement of the body of the loop.
NextInEpoch ==
    [s \in LoopBody |->
        CASE s = "forward"   -> "loss"
          [] s = "loss"      -> "zero_grad"
          [] s = "zero_grad" -> "backward"
          [] s = "backward"  -> "step"
          [] s = "step"      -> "append"
          [] s = "append"    -> "for"]

\* The gradients new of one backward pass as the .grad of the parameters.
GradsOf(new) ==
    [n \in Parameters |-> IF n \in Range(NetParams) THEN new[n] ELSE new["input"]]

\* The number of steps the optimizer has taken on parameter n.
StepsOf(opt, n) == IF n \in DOMAIN opt.state THEN opt.state[n].step ELSE 0

\* C11: in every epoch the statements run in the order forward, loss,
\* zero_grad, backward, step, append; when backward runs every gradient that
\* exists is zero, so after it the gradients are those of this epoch's loss
\* alone, and they are what the step applies; the step is the only statement
\* of the epoch that changes a parameter or the optimizer state, and it
\* raises the step count of every parameter from e to e + 1.
C11_EpochOrder ==
    [][ /\ pc \in LoopBody => pc' = NextInEpoch[pc]
        /\ pc \in LoopBody => e' = e
        /\ pc = "backward" =>
               /\ \A n \in DOMAIN grads : grads[n] = Zeros(Rows(heap[n]), Cols(heap[n]))
               /\ grads' = GradsOf(Backward(g, heap, saved,
                                            GradLogits(logits, labels, labeled_nodes)))
        /\ pc = "step" =>
               /\ UNCHANGED <<grads, saved, logits, loss>>
               /\ \A n \in Parameters :
                      /\ StepsOf(optimizer, n) = e
                      /\ StepsOf(optimizer', n) = e + 1
        /\ pc \in (LoopBody \cup {"for"}) \ {"step"} => UNCHANGED <<heap, optimizer>>
      ]_vars

\* The third epoch's backward pass ran: the gradients are not zero and the
\* optimizer has taken two steps.
C11_Witness ==
    /\ pc = "step"
    /\ e = 2
    /\ StepsOf(optimizer, "conv2.fc_self.bias") = 2
    /\ grads["conv2.fc_self.bias"] # Zeros(1, NumClasses)
    /\ grads["conv1.fc_neigh.weight"] # Zeros(HFeats, InFeats)

\* C12: the prediction of a node is the class with the larger of its 2
\* logits (class 0 when they are equal); the accuracy printed is k / 34 with
\* k the number of the 34 nodes whose prediction is its club label; the
\* logits it is computed from are those of the forward pass of the last
\* epoch, the entry all_logits[99], computed from the parameters as they
\* were before the 100th optimizer step.
C12_AccuracyFromLastForward ==
    [][ /\ pc # "forward" => logits' = logits
        /\ pc = "forward" =>
               \A n \in Parameters : StepsOf(optimizer, n) = e
        /\ pc = "step" =>
               logits = GraphSAGEForward(g, heap, heap[inputs]).logits
        /\ pc = "append" => all_logits'[e + 1] = logits
        /\ pc = "pred" =>
               /\ logits = all_logits[100]
               /\ \A n \in Parameters : StepsOf(optimizer, n) = 100
               /\ DOMAIN pred' = 0..33
               /\ \A v \in 0..33 :
                      /\ DOMAIN logits[v] = 0..1
                      /\ pred'[v] = (IF logits[v][1] > logits[v][0] THEN 1 ELSE 0)
        /\ pc = "accuracy" =>
               /\ accuracy'.total = 34
               /\ accuracy'.correct \in 0..34
               /\ accuracy'.correct
                      = Cardinality({v \in 0..33 : pred[v] = NData(g)["club"][v]})
      ]_vars

\* The accuracy was printed after 100 optimizer steps: some nodes are
\* predicted right and some wrong, from logits that are the last entry of
\* all_logits and that training has moved away from the first entry.
C12_Witness ==
    /\ pc = "done"
    /\ accuracy.total = 34
    /\ accuracy.correct \in 1..33
    /\ \A n \in Parameters : StepsOf(optimizer, n) = 100
    /\ logits = all_logits[100]
    /\ logits # all_logits[1]

=============================================================================
